---- MODULE Spec2Model ----
(***************************************************************************)
(* A model of the cast slideshow pipeline of                               *)
(* web/apps/cast/src/services/render.ts: the async generator               *)
(* imageURLGenerator (the Playback Scheduler) together with the functions  *)
(* it calls: getEncryptedCollectionFiles, decryptEnteFile, isFileEligible  *)
(* and createRenderableURL.                                                *)
(*                                                                         *)
(* The generator is single threaded and suspends only at its awaits and    *)
(* at its yield, so its state is its local variables plus the place it is  *)
(* suspended at (pc).  One action is one resumption: everything the code   *)
(* runs from one suspension point to the next.  While createRenderableURL  *)
(* resizes an image, pc follows the callbacks of resize.                   *)
(***************************************************************************)
EXTENDS Integers, Sequences, FiniteSets

(***************************************************************************)
(* Bounds of the model.                                                    *)
(***************************************************************************)
\* Longest diff page the server answers with.
MaxPageLen == 2
\* Most pages the server answers one getEncryptedCollectionFiles call with.
MaxPages == 2
\* Most files a call of getEncryptedCollectionFiles collects.
MaxFiles == 2
\* Object URLs are named 1..MaxURLs in the order URL.createObjectURL makes
\* them; a run is followed until it has made MaxURLs of them.
MaxURLs == 6
\* updationTime values of diff entries are 1..MaxTime.
MaxTime == 2
\* The clock is followed for MaxTicks steps past its origin.
MaxTicks == 3

(***************************************************************************)
(* Values.  An optional JavaScript value is a sequence of length 0         *)
(* (undefined) or 1.  A file name is the sequence of its dot separated     *)
(* segments; the empty string is the empty sequence.                       *)
(***************************************************************************)
Undefined == << >>
EmptyString == << >>
Some(v) == << v >>

Max(a, b) == IF a > b THEN a ELSE b

Range(s) == { s[i] : i \in 1..Len(s) }

Count(s, x) == Cardinality({ i \in 1..Len(s) : s[i] = x })

\* FILE_TYPE of @/media/file-type.
FILE_TYPE_IMAGE == "image"
FILE_TYPE_VIDEO == "video"
FILE_TYPE_LIVE_PHOTO == "livePhoto"
FileTypes == { FILE_TYPE_IMAGE, FILE_TYPE_VIDEO, FILE_TYPE_LIVE_PHOTO }

\* 100 * 1024 * 1024, the size limit of isFileEligible.
MaxEligibleSize == 100 * 1024 * 1024

(***************************************************************************)
(* File name helpers of @/next/file and @/media/formats.                   *)
(***************************************************************************)
\* The extension of a file name: its last segment when it has more than one.
nameAndExtension(title) ==
    IF Len(title) > 1 THEN Some(title[Len(title)]) ELSE Undefined

\* The image formats a browser cannot render.
NonWebImageFileExtensions == { "heic", "heif", "tiff", "tif", "dng", "cr2", "nef" }

isNonWebImageFileExtension(extension) ==
    extension # Undefined /\ extension[1] \in NonWebImageFileExtensions

isHEICExtension(extension) ==
    extension # Undefined /\ extension[1] \in { "heic", "heif" }

(***************************************************************************)
(* Errors.  An exception is a record saying whether it is an ApiError and  *)
(* which HTTP status it carries.                                           *)
(***************************************************************************)
NoError == [ kind |-> "none", isApiError |-> FALSE, httpStatusCode |-> 0 ]
RemoteError == [ kind |-> "diff", isApiError |-> TRUE, httpStatusCode |-> 500 ]
DecryptionError == [ kind |-> "decrypt", isApiError |-> FALSE, httpStatusCode |-> 0 ]

\* What createRenderableURL can throw: a rejected token, another API error, a
\* plain Error (no response, unknown MIME type, a failed conversion), and a
\* plain error that happens to carry the number 401.
RenderErrors ==
    { [ kind |-> "render", isApiError |-> TRUE, httpStatusCode |-> 401 ],
      [ kind |-> "render", isApiError |-> TRUE, httpStatusCode |-> 500 ],
      [ kind |-> "render", isApiError |-> FALSE, httpStatusCode |-> 0 ],
      [ kind |-> "render", isApiError |-> FALSE, httpStatusCode |-> 401 ] }

\* The Error that the Materializer's own throw statements the workers
\* and resize throw: not an ApiError.
PlainError == [ kind |-> "render", isApiError |-> FALSE, httpStatusCode |-> 0 ]

(***************************************************************************)
(* Encrypted file records and their decryption.  The crypto worker is an   *)
(* external collaborator: an encrypted blob is modelled as a sealed box    *)
(* around the plaintext it decrypts to with the right key, and             *)
(* decryptMetadata opens the box.  A worker call that throws is the        *)
(* environment's choice (action DecryptFail).                              *)
(***************************************************************************)
Seal(plain) == [ sealed |-> plain ]

decryptMetadata(blob) == blob.sealed

\* The fields a magic metadata overlay may carry.
OverlayData(editedTime, editedName) ==
    [ editedTime |-> editedTime, editedName |-> editedName ]

\* The decryption headers a record carries for its two stored objects.
FileHeader == "fileHeader"
ThumbnailHeader == "thumbnailHeader"

\* An EncryptedEnteFile: metadata is the encrypted core metadata,
\* magicMetadata / pubMagicMetadata are Undefined or Some(object with data),
\* file and thumbnail describe the stored objects.
EncryptedFile(title, creationTime, fileType, fileSize, magic, pubMagic) ==
    [ metadata |-> Seal([ title |-> title, creationTime |-> creationTime,
                          fileType |-> fileType ]),
      info |-> [ fileSize |-> fileSize ],
      magicMetadata |-> magic,
      pubMagicMetadata |-> pubMagic,
      file |-> [ decryptionHeader |-> FileHeader ],
      thumbnail |-> [ decryptionHeader |-> ThumbnailHeader ] ]

\* JavaScript truthiness of an optional number and of an optional string.
TruthyNumber(opt) == opt # Undefined /\ opt[1] # 0
TruthyString(opt) == opt # Undefined /\ opt[1] # EmptyString

\* Lines 220-241: an overlay is decrypted when it is present and has data.
DecryptOverlay(overlay) ==
    IF overlay # Undefined
    THEN Some([ data |-> decryptMetadata(overlay[1].data) ])
    ELSE Undefined

\* Lines 249-251: the creation time of the decrypted file.
EffectiveCreationTime(fileMetadata, magic, pubMagic) ==
    IF pubMagic # Undefined /\ TruthyNumber(pubMagic[1].data.editedTime)
    THEN pubMagic[1].data.editedTime[1]
    ELSE fileMetadata.creationTime

\* Lines 252-254: the title of the decrypted file.
EffectiveTitle(fileMetadata, magic, pubMagic) ==
    IF pubMagic # Undefined /\ TruthyString(pubMagic[1].data.editedName)
    THEN pubMagic[1].data.editedName[1]
    ELSE fileMetadata.title

\* decryptEnteFile, when every worker call succeeds.
decryptEnteFile(encryptedFile) ==
    LET fileMetadata == decryptMetadata(encryptedFile.metadata)
        fileMagicMetadata == DecryptOverlay(encryptedFile.magicMetadata)
        filePubMagicMetadata == DecryptOverlay(encryptedFile.pubMagicMetadata)
    IN  [ metadata |->
            [ title |-> EffectiveTitle(fileMetadata, fileMagicMetadata,
                                       filePubMagicMetadata),
              creationTime |-> EffectiveCreationTime(fileMetadata,
                                       fileMagicMetadata, filePubMagicMetadata),
              fileType |-> fileMetadata.fileType ],
          info |-> encryptedFile.info,
          magicMetadata |-> fileMagicMetadata,
          pubMagicMetadata |-> filePubMagicMetadata,
          file |-> encryptedFile.file,
          thumbnail |-> encryptedFile.thumbnail ]

(***************************************************************************)
(* The Eligibility Filter.                                                 *)
(***************************************************************************)
isImageOrLivePhoto(file) ==
    \/ file.metadata.fileType = FILE_TYPE_IMAGE
    \/ file.metadata.fileType = FILE_TYPE_LIVE_PHOTO

\* Line 260, with the comparison off by one.
MutantExceedsSizeLimit(fileSize) == fileSize >= MaxEligibleSize

\* Line 260.
ExceedsSizeLimit(fileSize) == fileSize > MaxEligibleSize

isFileEligible(file) ==
    IF ~isImageOrLivePhoto(file) THEN FALSE
    ELSE IF ExceedsSizeLimit(file.info.fileSize) THEN FALSE
    ELSE LET extension == nameAndExtension(file.metadata.title)
         IN  IF isNonWebImageFileExtension(extension)
             THEN isHEICExtension(extension)
             ELSE TRUE

(***************************************************************************)
(* The collection the server may answer with.  A diff entry is a file      *)
(* record with its deletion flag and updationTime.                         *)
(***************************************************************************)
\* An eligible JPEG and a video: the two kinds of record the scheduler
\* treats differently.
JpegRecord ==
    EncryptedFile(<< "a", "jpg" >>, 1, FILE_TYPE_IMAGE, 1024, Undefined, Undefined)
VideoRecord ==
    EncryptedFile(<< "v", "mp4" >>, 1, FILE_TYPE_VIDEO, 1024, Undefined, Undefined)
ServerRecords == { JpegRecord, VideoRecord }

\* Live entries of either record, and deleted entries (whose record is
\* dropped unread by line 185).
DiffEntries ==
    [ file : ServerRecords, isDeleted : { FALSE }, updationTime : 1..MaxTime ]
    \cup [ file : { JpegRecord }, isDeleted : { TRUE }, updationTime : 1..MaxTime ]

\* The pages the diff endpoint may answer with.
DiffPages ==
    UNION { [ 1..n -> DiffEntries ] : n \in 0..MaxPageLen }

\* shuffled() of @/utils/array returns some permutation of its argument.
Shuffles(s) ==
    { t \in [ 1..Len(s) -> Range(s) ] :
        \A x \in Range(s) : Count(t, x) = Count(s, x) }

(***************************************************************************)
(* State of one run of imageURLGenerator.                                  *)
(***************************************************************************)
VARIABLES
    pc,                  \* where the generator is suspended
    fetched,             \* getEncryptedCollectionFiles: files
    sinceTime,           \* getEncryptedCollectionFiles: sinceTime
    pages,               \* pages answered to the current call
    encryptedFiles,      \* the shuffled files of the current pass
    idx,                 \* position of the for loop in encryptedFiles
    item,                \* the last decrypted item: encryptedFile, file and
                         \* the verdict of isFileEligible on it (line 108)
    consecutiveFailures,
    haveEligibleFiles,
    previousURLs,
    nextURL,             \* the name URL.createObjectURL hands out next
    revoked,             \* the URL passed to the last URL.revokeObjectURL
    error,               \* the exception caught last, or thrown
    yieldedInPass,       \* whether the current pass has yielded
    failStreak,          \* createRenderableURL failures since its last success
    now,                 \* Date.now(), in ms from the last yield (from the
                         \* first next() before the first yield)
    lastYieldTime,       \* in the same measure
    elapsedTime,         \* line 148, for the item being paced or shown
    waited,              \* the delay of the wait of line 151 for that item
    yieldGap,            \* ms between the timestamps of the last two yields
    inFlight,            \* the asynchronous operations awaited and not settled
    passYields,          \* positions of encryptedFiles yielded in this pass
    yieldLog,            \* the last three URLs yielded, oldest first
    artifact,            \* per URL: created, yielded, times revoked, and
                         \* the function that made it
    passStreak,          \* createRenderableURL failures of this pass since
                         \* its start or its last success
    pageMax,             \* greatest updationTime on the page answered last
    pageMin,             \* least updationTime on that page
    hasMore,             \* resp.data.hasMore of the page answered last
    diffLog,             \* the pages answered to the current call (recorded
                         \* by SpecFetch only)
    isChromecast,        \* what isChromecast() answers on this device
    render               \* what the last call of createRenderableURL did
                         \* (recorded by SpecRender only)

fetchVars == << fetched, sinceTime, pages, pageMax, pageMin, hasMore >>
deviceVars == << isChromecast, render >>
passVars == << encryptedFiles, idx, item >>
windowVars == << previousURLs, nextURL, revoked, artifact >>
clockVars == << now, lastYieldTime >>
paceVars == << elapsedTime, waited, yieldGap >>

vars == << pc, fetched, sinceTime, pages, encryptedFiles, idx, item,
           consecutiveFailures, haveEligibleFiles, previousURLs, nextURL,
           revoked, error, yieldedInPass, failStreak, now, lastYieldTime,
           elapsedTime, waited, yieldGap, inFlight, passYields, yieldLog,
           artifact, passStreak, pageMax, pageMin, hasMore, diffLog,
           isChromecast,
           render >>

\* Line 75.
slideDuration == 12000

\* The clock of the model advances in steps of a third of a slide.
TickStep == slideDuration \div 3

\* Line 88 left out: the first slide is paced like any other.
MutantInitialLastYieldTime(t) == t

\* Lines 83-88: lastYieldTime when the body starts at time t.
InitialLastYieldTime(t) == t - (slideDuration - 2500)

\* A blob URL that does not exist (yet).
NoArtifact ==
    [ created |-> FALSE, yielded |-> FALSE, releases |-> 0, by |-> "none" ]

\* The blob URL that line 296 makes: the one createRenderableURL returns.
ReturnedURL ==
    [ created |-> TRUE, yielded |-> FALSE, releases |-> 0,
      by |-> "createRenderableURL" ]

\* The blob URL that line 394 makes for the image of resize.
ImageBlobURL ==
    [ created |-> TRUE, yielded |-> FALSE, releases |-> 0, by |-> "resize" ]

\* URL.createObjectURL never returns the same URL twice, whether the blob
\* an earlier URL named has been revoked or not: the URL made after url.
NextURL(url) == url + 1

\* The operations the generator awaits.
DiffRequest(since) == [ op |-> "diff", arg |-> since ]
DecryptCall(i) == [ op |-> "decrypt", arg |-> i ]
Download(i) == [ op |-> "download", arg |-> i ]
Wait(ms) == [ op |-> "wait", arg |-> ms ]
ImageLoad(url) == [ op |-> "load", arg |-> url ]
Encode(i) == [ op |-> "toBlob", arg |-> i ]

\* The values of the variables that Init and InitFile share.
InitRun ==
    /\ fetched = << >>
    /\ sinceTime = 0
    /\ pages = 0
    /\ item = Undefined
    /\ consecutiveFailures = 0
    /\ haveEligibleFiles = FALSE
    /\ previousURLs = << >>
    /\ nextURL = 1
    /\ revoked = Undefined
    /\ error = NoError
    /\ yieldedInPass = FALSE
    /\ failStreak = 0
    /\ now = 0
    /\ elapsedTime = Undefined
    /\ waited = Undefined
    /\ yieldGap = Undefined
    /\ passYields = << >>
    /\ yieldLog = << >>
    /\ artifact = [ u \in 1..MaxURLs |-> NoArtifact ]
    /\ passStreak = 0
    /\ pageMax = 0
    /\ pageMin = 0
    /\ hasMore = Undefined
    /\ diffLog = << >>
    /\ render = Undefined

\* Before the first next(): nothing of the body has run.  The device is a
\* Chromecast or another one.
Init ==
    /\ pc = "start"
    /\ isChromecast \in BOOLEAN
    /\ encryptedFiles = << >>
    /\ idx = 0
    /\ lastYieldTime = 0
    /\ inFlight = { }
    /\ InitRun

(***************************************************************************)
(* Pieces of the generator's body.                                         *)
(***************************************************************************)
\* Line 185: the entries of a page that are kept.  The scheduler reads
\* neither isDeleted nor updationTime again, so the list keeps the file
\* record of each kept entry.
LiveFiles(diff) ==
    LET live == SelectSeq(diff, LAMBDA e : ~e.isDeleted)
    IN  [ i \in 1..Len(live) |-> live[i].file ]

\* Lines 186-189: diff.reduce(max(max, file.updationTime), sinceTime).
RECURSIVE MaxUpdationTime(_, _)
MaxUpdationTime(diff, since) ==
    IF diff = << >> THEN since
    ELSE MaxUpdationTime(Tail(diff), Max(since, Head(diff).updationTime))

\* The greatest updationTime on a page (0 on an empty page).
PageMax(diff) ==
    IF diff = << >> THEN 0
    ELSE CHOOSE t \in { diff[i].updationTime : i \in 1..Len(diff) } :
            \A i \in 1..Len(diff) : diff[i].updationTime <= t

\* The least updationTime on a page (0 on an empty page).
PageMin(diff) ==
    IF diff = << >> THEN 0
    ELSE CHOOSE t \in { diff[i].updationTime : i \in 1..Len(diff) } :
            \A i \in 1..Len(diff) : diff[i].updationTime >= t

\* The cursor computed from each page alone, not carried over from the
\* pages before.
MutantNextSinceTime(diff, since) == MaxUpdationTime(diff, 0)

\* Lines 186-189: the cursor after a page.
NextSinceTime(diff, since) == MaxUpdationTime(diff, since)

\* The loop of getEncryptedCollectionFiles never left.
MutantContinuesPaging(more) == TRUE

\* Line 190: while (resp.data.hasMore).
ContinuesPaging(more) == more

\* Line 121: the token has expired.
IsTokenExpired(e) == e.isApiError /\ e.httpStatusCode = 401

\* The catch block without the check of line 121.
MutantRethrowsWithoutTokenCheck(failures, e) == failures = 3

\* The catch block giving up one failure later.
MutantRethrowsAtFour(failures, e) == failures = 4 \/ IsTokenExpired(e)

\* Lines 117-129, after the increment: whether the catch block rethrows.
Rethrows(failures, e) == failures = 3 \/ IsTokenExpired(e)

\* Line 143 revoking one slide later.
MutantShouldRevoke(urls) == Len(urls) > 2

\* Line 143: whether the oldest URL is revoked before the push.
ShouldRevoke(urls) == Len(urls) > 1

\* Line 144 reading previousURLs[0] instead of shifting it out.
MutantWindowAfterPush(urls, url) == Append(urls, url)

\* Lines 143-146: previousURLs after the shift (if any) and the push.
WindowAfterPush(urls, url) ==
    IF ShouldRevoke(urls) THEN Append(Tail(urls), url) ELSE Append(urls, url)

\* Line 144: what is revoked by this push, if anything.
RevokedByPush(urls) ==
    IF ShouldRevoke(urls) THEN Some(Head(urls)) ELSE revoked

\* Line 144 shifting the window without revoking what it shifts out.
MutantArtifactsAfterPush(arts, urls, url) ==
    [ arts EXCEPT ![url] = ReturnedURL ]

\* Line 144 and line 296 on the blobs: the oldest URL of the window is
\* revoked (if line 143 says so), and url is created.
ArtifactsAfterPush(arts, urls, url) ==
    LET afterRevoke ==
            IF ShouldRevoke(urls)
            THEN [ arts EXCEPT ![Head(urls)].releases = @ + 1 ]
            ELSE arts
    IN  [ afterRevoke EXCEPT ![url] = ReturnedURL ]

\* Line 159 with the test inverted.
MutantReturnsAtEndOfPass(have) == have

\* Line 159: whether the generator returns at the end of a pass.
ReturnsAtEndOfPass(have) == ~have

\* The counter set back to 0 at the head of each pass.
MutantFailuresAtPassStart(failures) == 0

\* Lines 96-103: consecutiveFailures is declared outside the while loop and
\* the head of a pass does not touch it.
FailuresAtPassStart(failures) == failures

\* Lines 149-152: the delay of the pacing wait, if there is one.
PacingWait(elapsed) ==
    IF elapsed > 0 /\ elapsed < slideDuration
    THEN Some(slideDuration - elapsed)
    ELSE Undefined

\* An operation started and not awaited: the caller goes on at once.
MutantAwait(ops, op) == ops

\* await: the caller goes on when the operation has settled.
Await(ops, op) == ops \ { op }

\* The caller starts an operation.
Begin(ops, op) == ops \cup { op }

\* The dimension named by key of the public magic metadata; 0 stands for a
\* missing one (both are falsy).
Dimension(file, key) ==
    IF /\ file.pubMagicMetadata # Undefined
       /\ key \in DOMAIN file.pubMagicMetadata[1].data
    THEN file.pubMagicMetadata[1].data[key]
    ELSE 0

Min(a, b) == IF a < b THEN a ELSE b

\* needsResize, lines 377-387.
needsResize(chromecast, file) ==
    IF ~chromecast THEN FALSE
    ELSE LET w == Dimension(file, "w")
             h == Dimension(file, "h")
         IN  IF w = 0 \/ h = 0 THEN TRUE
             ELSE Max(w, h) > 1280 \/ Min(w, h) > 720

\* Lines 106-108 for one element of encryptedFiles, when no worker call
\* throws: the file and the verdict of the filter.
Decrypted(encryptedFile) ==
    LET f == decryptEnteFile(encryptedFile)
    IN  [ encryptedFile |-> encryptedFile, file |-> f,
          eligible |-> isFileEligible(f) ]

\* The head of the for loop of line 105 with the iterator at position i of
\* fs, and, when the list is exhausted, lines 158-159 and the call of
\* getEncryptedCollectionFiles that starts the next pass (lines 172-178).
\* it is the item the iteration that ends here worked on, ops the operations
\* still in flight, ys the positions the pass has yielded.
LoopTo(fs, i, have, it, ops, ys) ==
    IF i <= Len(fs)
    THEN /\ pc' = "decrypt"
         /\ encryptedFiles' = fs
         /\ idx' = i
         /\ item' = it
         /\ inFlight' = Begin(ops, DecryptCall(i))
         /\ passYields' = ys
    ELSE IF ReturnsAtEndOfPass(have)
    THEN /\ pc' = "done"
         /\ encryptedFiles' = fs
         /\ idx' = i
         /\ item' = it
         /\ inFlight' = ops
         /\ passYields' = ys
    ELSE /\ pc' = "fetch"
         /\ encryptedFiles' = << >>
         /\ idx' = 0
         /\ item' = Undefined
         /\ inFlight' = Begin(ops, DiffRequest(0))
         /\ passYields' = << >>

\* The last three elements of a sequence.
LastThree(s) == IF Len(s) > 3 THEN SubSeq(s, Len(s) - 2, Len(s)) ELSE s

\* Lines 154-155 at time t: lastYieldTime is set and url is yielded; arts
\* are the blobs at that time.  Times are measured from this yield on.
YieldAt(t, url, arts) ==
    /\ pc' = "yielded"
    /\ yieldGap' = IF yieldLog = << >> THEN Undefined
                   ELSE Some(t - lastYieldTime)
    /\ lastYieldTime' = 0
    /\ now' = 0
    /\ yieldLog' = LastThree(Append(yieldLog, url))
    /\ passYields' = Append(passYields, idx)
    /\ yieldedInPass' = TRUE
    /\ artifact' = [ arts EXCEPT ![url].yielded = TRUE ]

(***************************************************************************)
(* Actions: one per resumption of the generator.                           *)
(***************************************************************************)
\* The first next(): lines 66-96, up to the first diff request.
Start ==
    /\ pc = "start"
    /\ pc' = "fetch"
    /\ previousURLs' = << >>
    /\ lastYieldTime' = InitialLastYieldTime(now)
    /\ consecutiveFailures' = 0
    /\ fetched' = << >>
    /\ sinceTime' = 0
    /\ pages' = 0
    /\ inFlight' = Begin(inFlight, DiffRequest(0))
    /\ UNCHANGED << passVars, haveEligibleFiles, nextURL, revoked, artifact,
                    error, yieldedInPass, failStreak, now, paceVars,
                    passYields, yieldLog, passStreak, pageMax, pageMin,
                    hasMore,
                    diffLog, deviceVars >>

\* Lines 176-190: a diff request is answered with the page diff and the flag
\* more.  The page is folded into files and sinceTime; then either the loop
\* goes round and sends the next request, or the call returns: the shuffle
\* of line 99, line 103 and the head of the for loop.  The locals of
\* getEncryptedCollectionFiles keep their last values (files is what the
\* call returns) until the generator resumes next.
Answered(diff, more) ==
    /\ pc = "fetch"
    /\ fetched' = fetched \o LiveFiles(diff)
    /\ sinceTime' = NextSinceTime(diff, sinceTime)
    /\ pageMax' = PageMax(diff)
    /\ pageMin' = PageMin(diff)
    /\ pages' = pages + 1
    /\ hasMore' = Some(more)
    /\ error' = NoError
    /\ IF ContinuesPaging(more)
       THEN /\ inFlight' = Begin(Await(inFlight, DiffRequest(sinceTime)),
                                 DiffRequest(NextSinceTime(diff, sinceTime)))
            /\ UNCHANGED << pc, passVars, consecutiveFailures,
                            haveEligibleFiles, yieldedInPass, passYields,
                            passStreak >>
       ELSE /\ \E fs \in Shuffles(fetched \o LiveFiles(diff)) :
                 LoopTo(fs, 1, FALSE, Undefined,
                        Await(inFlight, DiffRequest(sinceTime)), << >>)
            /\ haveEligibleFiles' = FALSE
            /\ consecutiveFailures' = FailuresAtPassStart(consecutiveFailures)
            /\ yieldedInPass' = FALSE
            /\ passStreak' = 0
    /\ UNCHANGED << windowVars, failStreak, clockVars, paceVars, yieldLog,
                    deviceVars >>

\* A diff request is answered with a page and hasMore set.
FetchMore(diff) ==
    /\ pages + 1 < MaxPages
    /\ Len(fetched) + Len(LiveFiles(diff)) <= MaxFiles
    /\ Answered(diff, TRUE)

\* A diff request is answered with the last page, hasMore unset.
FetchLast(diff) ==
    /\ pages < MaxPages
    /\ Len(fetched) + Len(LiveFiles(diff)) <= MaxFiles
    /\ Answered(diff, FALSE)

\* A failed diff request that is retried instead of thrown.
MutantFetchFail ==
    /\ pc = "fetch"
    /\ error' = RemoteError
    /\ UNCHANGED << pc, fetchVars, passVars, consecutiveFailures,
                    haveEligibleFiles, windowVars, yieldedInPass, failStreak,
                    clockVars, paceVars, inFlight, passYields, yieldLog,
                    passStreak, diffLog, deviceVars >>

\* A diff request fails: HTTPService.get throws, nothing catches it.
FetchFail ==
    /\ pc = "fetch"
    /\ pc' = "thrown"
    /\ error' = RemoteError
    /\ inFlight' = Await(inFlight, DiffRequest(sinceTime))
    /\ UNCHANGED << fetchVars, passVars, consecutiveFailures,
                    haveEligibleFiles, windowVars, yieldedInPass, failStreak,
                    clockVars, paceVars, passYields, yieldLog, passStreak,
                    diffLog, deviceVars >>

\* The locals of the call of getEncryptedCollectionFiles that has returned
\* are gone: nothing reads them again, and the next call starts afresh
\* (lines 172-173).
LocalsDropped ==
    /\ fetched' = << >>
    /\ sinceTime' = 0
    /\ pages' = 0
    /\ pageMax' = 0
    /\ pageMin' = 0
    /\ hasMore' = Undefined

\* Line 106: a worker call of decryptEnteFile throws; the await is outside
\* the try of line 112, so the exception leaves the generator.
DecryptFail ==
    /\ pc = "decrypt"
    /\ pc' = "thrown"
    /\ error' = DecryptionError
    /\ inFlight' = Await(inFlight, DecryptCall(idx))
    /\ LocalsDropped
    /\ UNCHANGED << passVars, consecutiveFailures,
                    haveEligibleFiles, windowVars, yieldedInPass, failStreak,
                    clockVars, paceVars, passYields, yieldLog, passStreak,
                    diffLog, deviceVars >>

\* Lines 106-108 with the counter cleared for every file that decrypts.
MutantDecryptSkip ==
    /\ pc = "decrypt"
    /\ ~Decrypted(encryptedFiles[idx]).eligible
    /\ LoopTo(encryptedFiles, idx + 1, haveEligibleFiles,
              Some(Decrypted(encryptedFiles[idx])),
              Await(inFlight, DecryptCall(idx)), passYields)
    /\ error' = NoError
    /\ consecutiveFailures' = 0
    /\ LocalsDropped
    /\ UNCHANGED << haveEligibleFiles, windowVars, yieldedInPass,
                    failStreak, clockVars, paceVars, yieldLog, passStreak,
                    diffLog, deviceVars >>

\* Lines 106-108: the file is decrypted and is not eligible: continue.
DecryptSkip ==
    /\ pc = "decrypt"
    /\ ~Decrypted(encryptedFiles[idx]).eligible
    /\ LoopTo(encryptedFiles, idx + 1, haveEligibleFiles,
              Some(Decrypted(encryptedFiles[idx])),
              Await(inFlight, DecryptCall(idx)), passYields)
    /\ error' = NoError
    /\ LocalsDropped
    /\ UNCHANGED << consecutiveFailures, haveEligibleFiles,
                    windowVars, yieldedInPass, failStreak, clockVars,
                    paceVars, yieldLog, passStreak, diffLog, deviceVars >>

\* Lines 106-113: the file is decrypted and eligible: createRenderableURL
\* is called, which issues the download request of line 343.
DecryptEligible ==
    /\ pc = "decrypt"
    /\ Decrypted(encryptedFiles[idx]).eligible
    /\ pc' = "materialise"
    /\ item' = Some(Decrypted(encryptedFiles[idx]))
    /\ error' = NoError
    /\ inFlight' = Begin(Await(inFlight, DecryptCall(idx)), Download(idx))
    /\ LocalsDropped
    /\ UNCHANGED << encryptedFiles, idx, consecutiveFailures,
                    haveEligibleFiles, windowVars, yieldedInPass, failStreak,
                    clockVars, paceVars, passYields, yieldLog, passStreak,
                    diffLog, deviceVars >>

\* Lines 114-115 and 136-155, when the operation op that createRenderableURL
\* was waiting for has settled and line 296 has made the URL: the window is
\* updated, and the generator either waits (line 151) or yields at once
\* (lines 154-155).
Pushed(op) ==
    /\ nextURL <= MaxURLs
    /\ consecutiveFailures' = 0
    /\ haveEligibleFiles' = TRUE
    /\ previousURLs' = WindowAfterPush(previousURLs, nextURL)
    /\ revoked' = RevokedByPush(previousURLs)
    /\ nextURL' = NextURL(nextURL)
    /\ failStreak' = 0
    /\ passStreak' = 0
    /\ error' = NoError
    /\ elapsedTime' = Some(now - lastYieldTime)
    /\ LET arts == ArtifactsAfterPush(artifact, previousURLs, nextURL)
           ops == Await(inFlight, op)
           delay == PacingWait(now - lastYieldTime)
       IN  IF delay # Undefined
           THEN /\ pc' = "wait"
                /\ waited' = delay
                /\ inFlight' = Begin(ops, Wait(delay[1]))
                /\ artifact' = arts
                /\ UNCHANGED << clockVars, yieldGap, yieldLog, passYields,
                                yieldedInPass >>
           ELSE /\ waited' = Undefined
                /\ inFlight' = ops
                /\ YieldAt(now, nextURL, arts)
    /\ UNCHANGED << fetchVars, passVars, diffLog, isChromecast >>

\* Lines 113-115 and 136-155: createRenderableURL resolves for a file that
\* needs no resize (line 295): renderableImageBlob has resolved and line
\* 296 makes the URL.
MaterialiseOK ==
    /\ pc = "materialise"
    /\ ~needsResize(isChromecast, item[1].file)
    /\ Pushed(Download(idx))

\* Lines 294-295 and 389-396 for a file that needs a resize:
\* renderableImageBlob has resolved, the canvas has a context, resize makes
\* a URL of the blob and gives it to an image; createRenderableURL goes on
\* when the image has loaded.
ResizeStart ==
    /\ pc = "materialise"
    /\ needsResize(isChromecast, item[1].file)
    /\ nextURL <= MaxURLs
    /\ pc' = "resize"
    /\ artifact' = [ artifact EXCEPT ![nextURL] = ImageBlobURL ]
    /\ nextURL' = NextURL(nextURL)
    /\ inFlight' = Begin(Await(inFlight, Download(idx)), ImageLoad(nextURL))
    /\ error' = NoError
    /\ UNCHANGED << fetchVars, passVars, consecutiveFailures,
                    haveEligibleFiles, previousURLs, revoked, yieldedInPass,
                    failStreak, clockVars, paceVars, passYields, yieldLog,
                    passStreak, diffLog, isChromecast >>

\* The URL that resize has given to the image.
ImageURL == (CHOOSE op \in inFlight : op.op = "load").arg

\* Lines 116-134 with the exception e caught after the
\* operation op has settled; arts and rev are the blobs and the URL revoked
\* last at that time.
Caught(e, op, arts, rev) ==
    /\ consecutiveFailures' = consecutiveFailures + 1
    /\ failStreak' = failStreak + 1
    /\ passStreak' = passStreak + 1
    /\ error' = e
    /\ artifact' = arts
    /\ revoked' = rev
    /\ IF Rethrows(consecutiveFailures + 1, e)
       THEN /\ pc' = "thrown"
            /\ inFlight' = Await(inFlight, op)
            /\ UNCHANGED << passVars, passYields >>
       ELSE LoopTo(encryptedFiles, idx + 1, haveEligibleFiles, item,
                   Await(inFlight, op), passYields)
    /\ UNCHANGED << fetchVars, haveEligibleFiles, previousURLs, nextURL,
                    yieldedInPass, clockVars, paceVars, yieldLog, diffLog,
                    isChromecast >>

\* The blobs after URL.revokeObjectURL(url) of line 399.
ArtifactsAfterRevoke(arts, url) ==
    [ arts EXCEPT ![url].releases = @ + 1 ]

\* Lines 397-416: the image has loaded; its URL is revoked, the image is
\* drawn on the canvas (drawOK: without an exception) and canvas.toBlob is
\* called, or the exception is passed to reject and createRenderableURL
\* throws it.
ImageLoaded(drawOK) ==
    /\ pc = "resize"
    /\ IF drawOK
       THEN /\ pc' = "encode"
            /\ artifact' = ArtifactsAfterRevoke(artifact, ImageURL)
            /\ revoked' = Some(ImageURL)
            /\ inFlight' = Begin(Await(inFlight, ImageLoad(ImageURL)),
                                 Encode(idx))
            /\ error' = NoError
            /\ UNCHANGED << fetchVars, passVars, consecutiveFailures,
                            haveEligibleFiles, previousURLs, nextURL,
                            yieldedInPass, failStreak, clockVars, paceVars,
                            passYields, yieldLog, passStreak, diffLog,
                            isChromecast >>
       ELSE Caught(PlainError, ImageLoad(ImageURL),
                   ArtifactsAfterRevoke(artifact, ImageURL), Some(ImageURL))

\* Lines 409-411, 295-296 and 114-155: canvas.toBlob calls back with the
\* JPEG, resize resolves, and line 296 makes the URL of the resized blob.
Encoded ==
    /\ pc = "encode"
    /\ Pushed(Encode(idx))

\* How late the timer of wait() may fire.
Lateness == { 0, TickStep }

\* Lines 151-155: the timer of wait() fires, late ms after it was due.
Wake(late) ==
    /\ pc = "wait"
    /\ inFlight' = Await(inFlight, Wait(waited[1]))
    /\ YieldAt(now + waited[1] + late, previousURLs[Len(previousURLs)],
               artifact)
    /\ UNCHANGED << fetchVars, passVars, consecutiveFailures,
                    haveEligibleFiles, previousURLs, nextURL, revoked, error,
                    failStreak, elapsedTime, waited, passStreak,
                    diffLog, deviceVars >>

\* Lines 116-134: createRenderableURL throws e before it has made any URL.
MaterialiseFail(e) ==
    /\ pc = "materialise"
    /\ Caught(e, Download(idx), artifact, revoked)

\* The for loop going on with the element it has just yielded.
MutantPull ==
    /\ pc = "yielded"
    /\ LoopTo(encryptedFiles, idx, haveEligibleFiles, item, inFlight,
              passYields)
    /\ error' = NoError
    /\ elapsedTime' = Undefined
    /\ waited' = Undefined
    /\ yieldGap' = Undefined
    /\ UNCHANGED << fetchVars, consecutiveFailures, haveEligibleFiles,
                    windowVars, yieldedInPass, failStreak, clockVars,
                    yieldLog, passStreak, diffLog, deviceVars >>

\* The consumer calls next() again: the generator resumes after line 155.
Pull ==
    /\ pc = "yielded"
    /\ LoopTo(encryptedFiles, idx + 1, haveEligibleFiles, item, inFlight,
              passYields)
    /\ error' = NoError
    /\ elapsedTime' = Undefined
    /\ waited' = Undefined
    /\ yieldGap' = Undefined
    /\ UNCHANGED << fetchVars, consecutiveFailures, haveEligibleFiles,
                    windowVars, yieldedInPass, failStreak, clockVars,
                    yieldLog, passStreak, diffLog, deviceVars >>

\* A step of a call of createRenderableURL that does not throw, and of
\* what follows it in the generator; what the call did is not recorded.
Materialised ==
    \/ MaterialiseOK /\ UNCHANGED render
    \/ ResizeStart /\ UNCHANGED render
    \/ ImageLoaded(TRUE) /\ UNCHANGED render
    \/ Encoded /\ UNCHANGED render

\* A call of createRenderableURL that throws, before it has made a URL or
\* while resize draws the image.
MaterialiseThrows ==
    \/ \E e \in RenderErrors : MaterialiseFail(e) /\ UNCHANGED render
    \/ ImageLoaded(FALSE) /\ UNCHANGED render

\* Every resumption but the first.  Time stands still but for the pacing
\* waits, and the pages of a call are not recorded.
Resume ==
    \/ \E diff \in DiffPages : FetchMore(diff) /\ UNCHANGED diffLog
    \/ \E diff \in DiffPages : FetchLast(diff) /\ UNCHANGED diffLog
    \/ FetchFail
    \/ DecryptFail
    \/ DecryptSkip
    \/ DecryptEligible
    \/ Materialised
    \/ \E late \in Lateness : Wake(late)
    \/ MaterialiseThrows
    \/ Pull

Next ==
    \/ Start
    \/ Resume

Spec == Init /\ [][Next]_vars

(***************************************************************************)
(* A second specification for the per-file functions decryptEnteFile and   *)
(* isFileEligible: the run starts with the first pass having fetched a     *)
(* collection of one record, drawn from every combination of file type,    *)
(* declared size (around the limit), file name and overlays.               *)
(***************************************************************************)
Titles ==
    { << "a", "jpg" >>, << "a", "heic" >>, << "a", "heif" >>,
      << "a", "tiff" >>, << "noext" >> }

FileSizes == { MaxEligibleSize - 1, MaxEligibleSize, MaxEligibleSize + 1 }

EditedTimes == { Undefined, Some(0), Some(7), Some(-5) }

EditedNames == { Undefined, Some(<< "b", "dng" >>), Some(<< "b", "png" >>) }

\* A private overlay that carries edited fields of its own.
PrivateOverlays ==
    { Undefined,
      Some([ data |-> Seal(OverlayData(Some(9), Some(<< "p", "png" >>))) ]) }

PublicOverlays ==
    { Undefined } \cup
    { Some([ data |-> Seal(OverlayData(t, n)) ]) :
        t \in EditedTimes, n \in EditedNames }

AllRecords ==
    { EncryptedFile(title, 3, fileType, fileSize, magic, pubMagic) :
        title \in Titles, fileType \in FileTypes, fileSize \in FileSizes,
        magic \in PrivateOverlays, pubMagic \in PublicOverlays }

InitFile ==
    /\ pc = "decrypt"
    /\ isChromecast \in BOOLEAN
    /\ encryptedFiles \in { << r >> : r \in AllRecords }
    /\ idx = 1
    /\ lastYieldTime = InitialLastYieldTime(0)
    /\ inFlight = { DecryptCall(1) }
    /\ InitRun

SpecFile == InitFile /\ [][Resume]_vars

(***************************************************************************)
(* A third specification, for liveness: every diff request is answered,    *)
(* every pass has an eligible file, createRenderableURL never throws, and  *)
(* the consumer and the environment keep answering (weak fairness).        *)
(***************************************************************************)
HasEligibleFile(fs) ==
    \E i \in 1..Len(fs) : Decrypted(fs[i]).eligible

\* A page with hasMore set that leaves the pass able to hold an eligible
\* file: it has one already, or the call may collect another file.
FetchMoreEligible(diff) ==
    /\ FetchMore(diff)
    /\ HasEligibleFile(fetched') \/ Len(fetched') < MaxFiles
    /\ UNCHANGED diffLog

FetchLastEligible(diff) ==
    /\ FetchLast(diff)
    /\ HasEligibleFile(encryptedFiles')
    /\ UNCHANGED diffLog

LiveNext ==
    \/ Start
    \/ \E diff \in DiffPages : FetchMoreEligible(diff)
    \/ \E diff \in DiffPages : FetchLastEligible(diff)
    \/ DecryptFail
    \/ DecryptSkip
    \/ DecryptEligible
    \/ Materialised
    \/ \E late \in Lateness : Wake(late)
    \/ Pull

LiveSpec == Init /\ [][LiveNext]_vars /\ WF_vars(LiveNext)

(***************************************************************************)
(* A fourth specification, for the pacing: time passes while the generator *)
(* awaits a request, a worker or the consumer.  The collection is steady:  *)
(* no entry is deleted and every entry has updationTime 1.                 *)
(***************************************************************************)
\* The clock moves on by one step, at most MaxTicks steps from its origin.
Tick ==
    /\ pc \in { "fetch", "decrypt", "materialise", "resize", "encode",
               "yielded" }
    /\ now < MaxTicks * TickStep
    /\ now' = now + TickStep
    /\ UNCHANGED << pc, fetchVars, passVars, consecutiveFailures,
                    haveEligibleFiles, windowVars, error, yieldedInPass,
                    failStreak, lastYieldTime, paceVars, inFlight,
                    passYields, yieldLog, passStreak, diffLog, deviceVars >>

SteadyPages ==
    { diff \in DiffPages :
        \A i \in 1..Len(diff) : ~diff[i].isDeleted /\ diff[i].updationTime = 1 }

PaceNext ==
    \/ Start
    \/ Tick
    \/ \E diff \in SteadyPages : FetchMore(diff) /\ UNCHANGED diffLog
    \/ \E diff \in SteadyPages : FetchLast(diff) /\ UNCHANGED diffLog
    \/ DecryptSkip
    \/ DecryptEligible
    \/ Materialised
    \/ \E late \in Lateness : Wake(late)
    \/ MaterialiseThrows
    \/ Pull

SpecPace == Init /\ [][PaceNext]_vars

(***************************************************************************)
(* A fifth specification, for getEncryptedCollectionFiles: the pages       *)
(* answered to a call are recorded, so that its result can be compared     *)
(* with them.  Nothing fails and time stands still.                        *)
(***************************************************************************)
\* The record of the current call after one more page.
Recorded(log, diff) ==
    Append(IF pages = 0 THEN << >> ELSE log, diff)

FetchMoreRecorded(diff) ==
    /\ FetchMore(diff)
    /\ diffLog' = Recorded(diffLog, diff)

FetchLastRecorded(diff) ==
    /\ FetchLast(diff)
    /\ diffLog' = Recorded(diffLog, diff)

FetchNext ==
    \/ Start
    \/ \E diff \in DiffPages : FetchMoreRecorded(diff)
    \/ \E diff \in DiffPages : FetchLastRecorded(diff)
    \/ FetchFail
    \/ DecryptSkip
    \/ DecryptEligible
    \/ Materialised
    \/ \E late \in Lateness : Wake(late)
    \/ Pull

SpecFetch == Init /\ [][FetchNext]_vars

(***************************************************************************)
(* The Content Materializer: createRenderableURL, renderableImageBlob and  *)
(* downloadFile.  The calls are awaited one after the other, so one call   *)
(* of createRenderableURL is a function of the device, the file and what   *)
(* the collaborators answer (the world): it gives the calls made, in       *)
(* order, and either the exception thrown or the blob the URL is made of.  *)
(***************************************************************************)
\* The plaintext of a stored object: an image in some format, or a live
\* photo bundle holding a still image and its name.
Formats == { "jpeg", "heic", "unknown" }

Image(format) == [ kind |-> "image", format |-> format ]

Bundle(format, imageFileName) ==
    [ kind |-> "livePhoto", image |-> Image(format),
      imageFileName |-> imageFileName ]

\* What may be stored as the full object of a file.
FullObjects ==
    { Image(f) : f \in Formats }
    \cup { Bundle("jpeg", << "still", "jpg" >>),
           Bundle("unknown", << "still", "heic" >>) }

\* The thumbnail of a file is a JPEG.
ThumbnailObject == Image("jpeg")

\* A stored object is encrypted with the header its record carries.
SealWith(plain, header) == [ sealed |-> plain, header |-> header ]

\* cryptoWorker.decryptFile: the plaintext, or Undefined when it throws
\* (the header is not the one the data was encrypted with).
decryptFile(data, header) ==
    IF data.header = header THEN Some(data.sealed) ELSE Undefined

\* decodeLivePhoto of @/media/live-photo: the still image of a bundle and
\* its name, or Undefined when it throws (the blob is not a bundle).
decodeLivePhoto(fileName, blob) ==
    IF blob.kind = "livePhoto"
    THEN Some([ imageData |-> blob.image,
                imageFileName |-> blob.imageFileName ])
    ELSE Undefined

\* detectMediaMIMEType of services/detect-type: the type sniffed from the
\* bytes, or Undefined.
detectMediaMIMEType(blob, fileName) ==
    IF blob.kind = "image" /\ blob.format = "jpeg" THEN Some("image/jpeg")
    ELSE IF blob.kind = "image" /\ blob.format = "heic" THEN Some("image/heic")
    ELSE Undefined

\* The answers of the collaborators to one call of createRenderableURL:
\* the exception of HTTPService.get if it throws one, whether its response
\* has data, the full object stored for the file, whether the HEIC
\* conversion succeeds, and whether the canvas of resize has a 2d context.
Worlds ==
    [ failure : { NoError } \cup
                { e \in RenderErrors : e.isApiError },
      hasData : BOOLEAN,
      full : FullObjects,
      convertOK : BOOLEAN,
      contextOK : BOOLEAN ]

\* heicToJPEG (lines 280-284): the converted image, or Undefined when the
\* worker throws.
heicToJPEG(blob, world) ==
    IF world.convertOK THEN Some(Image("jpeg")) ELSE Undefined

\* A call made by the Materializer.  The argument of a call that is given
\* a blob is the type of the blob (Undefined for the untyped blob of line
\* 363).
Call(op, arg) == [ op |-> op, arg |-> arg ]

\* The outcomes of the Materializer's functions: the calls made, the
\* exception thrown or the blob returned, and the value of mimeType (line
\* 322) when the function was left.
Threw(calls, e, mimeType) ==
    [ calls |-> calls, thrown |-> Some(e), blob |-> Undefined,
      mimeType |-> mimeType ]

Returned(calls, blob, mimeType) ==
    [ calls |-> calls, thrown |-> Undefined, blob |-> Some(blob),
      mimeType |-> mimeType ]

\* createRenderableURL has not settled: resize waits for its image.
Pending(calls, mimeType) ==
    [ calls |-> calls, thrown |-> Undefined, blob |-> Undefined,
      mimeType |-> mimeType ]

\* Line 306 with the device left out.
MutantShouldUseThumbnail(chromecast, ext) == isHEICExtension(ext)

\* Line 306.
shouldUseThumbnail(chromecast, ext) == chromecast /\ isHEICExtension(ext)

\* Lines 340-342: the object that is requested.
Variant(useThumbnail) == IF useThumbnail THEN "thumbnail" ELSE "file"

\* What the server answers a request for an object of file with.
StoredObject(file, variant, world) ==
    IF variant = "thumbnail"
    THEN SealWith(ThumbnailObject, file.thumbnail.decryptionHeader)
    ELSE SealWith(world.full, file.file.decryptionHeader)

\* Lines 357-359: the header decryptFile is given.
HeaderUsed(file, useThumbnail) ==
    IF useThumbnail THEN file.thumbnail.decryptionHeader
    ELSE file.file.decryptionHeader

\* downloadFile, lines 332-364.
downloadFile(file, useThumbnail, world) ==
    IF ~isImageOrLivePhoto(file) THEN Threw(<< >>, PlainError, Undefined)
    ELSE LET get == << Call("get", Variant(useThumbnail)) >>
         IN  IF world.failure # NoError THEN Threw(get, world.failure, Undefined)
             ELSE IF ~world.hasData THEN Threw(get, PlainError, Undefined)
             ELSE LET header == HeaderUsed(file, useThumbnail)
                      data == StoredObject(file, Variant(useThumbnail), world)
                      decrypted == decryptFile(data, header)
                      calls == Append(get, Call("decryptFile", header))
                  IN  IF decrypted = Undefined THEN Threw(calls, PlainError, Undefined)
                      ELSE Returned(calls, decrypted[1], Undefined)

\* Lines 326-329: the conversion of a HEIC image and the blob returned,
\* whose type is the detected one.
Converted(calls, blob, mimeType, world) ==
    IF mimeType \in { "image/heif", "image/heic" }
    THEN LET jpeg == heicToJPEG(blob, world)
             made == Append(calls, Call("heicToJPEG", Undefined))
         IN  IF jpeg = Undefined THEN Threw(made, PlainError, Some(mimeType))
             ELSE Returned(made, jpeg[1], Some(mimeType))
    ELSE Returned(calls, blob, Some(mimeType))

\* Lines 319-329: the detection of the type of blob, named fileName.
Sniffed(calls, blob, fileName, world) ==
    LET mimeType == detectMediaMIMEType(blob, fileName)
        made == Append(calls, Call("detectMediaMIMEType", fileName))
    IN  IF mimeType = Undefined THEN Threw(made, PlainError, Undefined)
        ELSE Converted(made, blob, mimeType[1], world)

\* renderableImageBlob, lines 299-330.
renderableImageBlob(chromecast, file, world) ==
    LET fileName == file.metadata.title
        ext == nameAndExtension(fileName)
        useThumbnail == shouldUseThumbnail(chromecast, ext)
        downloaded == downloadFile(file, useThumbnail, world)
    IN  IF downloaded.thrown # Undefined THEN downloaded
        ELSE IF /\ ~useThumbnail
                /\ file.metadata.fileType = FILE_TYPE_LIVE_PHOTO
        THEN LET decoded == decodeLivePhoto(fileName, downloaded.blob[1])
                 made == Append(downloaded.calls,
                                Call("decodeLivePhoto", fileName))
             IN  IF decoded = Undefined THEN Threw(made, PlainError, Undefined)
                 ELSE Sniffed(made, decoded[1].imageData,
                              decoded[1].imageFileName, world)
        ELSE Sniffed(downloaded.calls, downloaded.blob[1], fileName, world)

\* createRenderableURL, lines 293-297, as far as it gets without waiting
\* for the image of resize (lines 389-396): it throws, or it returns the
\* blob that line 296 makes the URL of, or resize has made a URL of the blob
\* for its image.
createRenderableURL(chromecast, file, world) ==
    LET imageBlob == renderableImageBlob(chromecast, file, world)
        type == imageBlob.mimeType[1]
    IN  IF imageBlob.thrown # Undefined THEN imageBlob
        ELSE IF needsResize(chromecast, file)
        THEN LET made == Append(imageBlob.calls, Call("resize", type))
             IN  IF ~world.contextOK
                 THEN Threw(made, PlainError, imageBlob.mimeType)
                 ELSE Pending(Append(made, Call("createObjectURL", type)),
                              imageBlob.mimeType)
        ELSE Returned(Append(imageBlob.calls, Call("createObjectURL", type)),
                      imageBlob.blob[1], imageBlob.mimeType)

\* Lines 397-416 seen from createRenderableURL: the URL of the image is
\* revoked, and resize rejects when drawing throws.
AfterLoad(made, url, drawOK) ==
    LET calls == Append(made.calls, Call("revokeObjectURL", url))
    IN  IF drawOK THEN Pending(calls, made.mimeType)
        ELSE Threw(calls, PlainError, made.mimeType)

\* Lines 409-411 and 295-296: resize resolves with a JPEG, whose URL is
\* made.
AfterEncode(made) ==
    Returned(Append(made.calls, Call("createObjectURL", "image/jpeg")),
             Image("jpeg"), made.mimeType)

(***************************************************************************)
(* A sixth specification, for the Materializer: the run starts with the    *)
(* first pass having fetched a collection of one eligible record, on a     *)
(* Chromecast or on another device, and what createRenderableURL does is   *)
(* recorded.  The run is followed to the end of the pass.                  *)
(***************************************************************************)
\* Public magic metadata with the dimensions of the image.
SizedOverlay(w, h) ==
    Some([ data |-> Seal([ editedTime |-> Undefined,
                           editedName |-> Undefined, w |-> w, h |-> h ]) ])

RenderRecords ==
    { EncryptedFile(title, 3, fileType, 1024, Undefined, pubMagic) :
        title \in { << "a", "jpg" >>, << "a", "heic" >>, << "noext" >> },
        fileType \in { FILE_TYPE_IMAGE, FILE_TYPE_LIVE_PHOTO },
        pubMagic \in { Undefined, SizedOverlay(1280, 720),
                       SizedOverlay(1281, 720) } }

InitRender ==
    /\ pc = "decrypt"
    /\ isChromecast \in BOOLEAN
    /\ encryptedFiles \in { << r >> : r \in RenderRecords }
    /\ idx = 1
    /\ lastYieldTime = InitialLastYieldTime(0)
    /\ inFlight = { DecryptCall(1) }
    /\ InitRun

\* Lines 113-155: createRenderableURL, in the given world, settles or gets
\* to the image of resize.
Rendered(world) ==
    /\ pc = "materialise"
    /\ LET made == createRenderableURL(isChromecast, item[1].file, world)
       IN  /\ render' = Some(made)
           /\ IF made.thrown # Undefined
              THEN MaterialiseFail(made.thrown[1])
              ELSE IF made.blob = Undefined
              THEN ResizeStart
              ELSE MaterialiseOK

ImageLoadedRecorded(drawOK) ==
    /\ ImageLoaded(drawOK)
    /\ render' = Some(AfterLoad(render[1], ImageURL, drawOK))

EncodedRecorded ==
    /\ Encoded
    /\ render' = Some(AfterEncode(render[1]))

\* An image that never loads and a canvas.toBlob that never calls back
\* with a blob leave createRenderableURL unsettled for good: no step.
RenderNext ==
    \/ DecryptEligible
    \/ \E world \in Worlds : Rendered(world)
    \/ \E drawOK \in BOOLEAN : ImageLoadedRecorded(drawOK)
    \/ EncodedRecorded
    \/ \E late \in Lateness : Wake(late)
    \/ Pull

SpecRender == InitRender /\ [][RenderNext]_vars

(***************************************************************************)
(* Vocabulary of the claims.                                               *)
(***************************************************************************)
\* An authorization failure: an ApiError with HTTP status 401.
IsAuthorizationFailure(e) == e.isApiError /\ e.httpStatusCode = 401

\* The generator has ended (returned or thrown) and nothing of it can run.
Terminated == pc \in { "done", "thrown" } /\ ~ENABLED Next

\* The condition of the Eligibility Filter as the specification words it.
EligibleAsSpecified(f) ==
    /\ f.metadata.fileType \in { FILE_TYPE_IMAGE, FILE_TYPE_LIVE_PHOTO }
    /\ f.info.fileSize <= 100 * 1024 * 1024
    /\ LET extension == nameAndExtension(f.metadata.title)
       IN  \/ ~isNonWebImageFileExtension(extension)
           \/ isHEICExtension(extension)

(***************************************************************************)
(* C1.  The Playback Window (previousURLs) never holds more than 2         *)
(* artifacts: when a third would be added the oldest is revoked and        *)
(* removed first, so a revoked URL is never in the window and the window   *)
(* holds no URL twice.                                                     *)
(***************************************************************************)
C1_WindowAtMostTwo ==
    /\ Len(previousURLs) <= 2
    /\ revoked # Undefined => revoked[1] \notin Range(previousURLs)
    /\ Cardinality(Range(previousURLs)) = Len(previousURLs)

\* The window is full and an older URL has been revoked to make room.
C1_Witness ==
    /\ pc = "yielded"
    /\ Len(previousURLs) = 2
    /\ revoked # Undefined

(***************************************************************************)
(* C2.  A materialisation failure that is an authorization failure ends    *)
(* the generator at once by rethrowing that error, whatever the failure    *)
(* counter was: right after such a failure the generator has thrown it     *)
(* and nothing of it can run again.                                        *)
(***************************************************************************)
C2_AuthFailureTerminates ==
    (error.kind = "render" /\ IsAuthorizationFailure(error))
        => (pc = "thrown" /\ Terminated)

\* An authorization failure on the first failing item (the counter was 0)
\* has ended the run.
C2_Witness ==
    /\ pc = "thrown"
    /\ IsAuthorizationFailure(error)
    /\ consecutiveFailures = 1

(***************************************************************************)
(* C3.  The failure counter is 0 right after a successful                  *)
(* materialisation; three consecutive materialisation failures with no     *)
(* success in between end the run by rethrowing the third error; a first   *)
(* and a second non-authorization failure are skipped; and while the       *)
(* generator runs the counter is 0, 1 or 2.                                *)
(***************************************************************************)
C3_ThreeStrikes ==
    /\ pc = "yielded" => consecutiveFailures = 0
    /\ failStreak >= 3 =>
         (failStreak = 3 /\ pc = "thrown" /\ error.kind = "render" /\ Terminated)
    /\ (error.kind = "render" /\ ~IsAuthorizationFailure(error)
            /\ failStreak \in { 1, 2 }) => pc # "thrown"
    /\ pc # "thrown" => consecutiveFailures \in { 0, 1, 2 }

\* Three non-authorization failures in a row have ended the run.
C3_Witness ==
    /\ pc = "thrown"
    /\ failStreak = 3
    /\ ~IsAuthorizationFailure(error)

(***************************************************************************)
(* C4.  The generator returns normally exactly at the end of a pass that   *)
(* yielded nothing: when it has returned, the pass is exhausted and has    *)
(* yielded no artifact; and a step that exhausts a pass returns if the     *)
(* pass yielded nothing and starts the next pass if it yielded.            *)
(***************************************************************************)
C4_DoneExactlyAfterEmptyPass ==
    /\ [](pc = "done" => (~yieldedInPass /\ idx = Len(encryptedFiles) + 1))
    /\ [][ /\ (pc' = "done" /\ pc # "done") => ~yieldedInPass'
           /\ (pc' = "fetch" /\ pc \notin { "start", "fetch" }) => yieldedInPass
           /\ (pc \in { "decrypt", "materialise", "resize", "encode", "wait",
                        "yielded" }
                 /\ idx = Len(encryptedFiles)
                 /\ pc' \notin { "materialise", "resize", "encode", "wait",
                                 "yielded", "thrown" })
                => (pc' = "done" <=> ~yieldedInPass) ]_vars

\* The generator has returned after a later, non-empty pass that yielded
\* nothing (an earlier pass had yielded).
C4_Witness ==
    /\ pc = "done"
    /\ encryptedFiles # << >>
    /\ previousURLs # << >>

(***************************************************************************)
(* C5.  If the collection has an eligible file in every pass the generator *)
(* never returns normally: when it has returned, the pass it returned from *)
(* held no eligible file.                                                  *)
(***************************************************************************)
C5_NeverDoneWithEligibleFile ==
    pc = "done" => ~HasEligibleFile(encryptedFiles)

(***************************************************************************)
(* C6.  Liveness: when every diff request is answered, every pass has an   *)
(* eligible file, every materialisation succeeds and the consumer keeps    *)
(* pulling, the generator yields again and again and starts a new pass     *)
(* again and again, for as long as the run is followed: until it has made  *)
(* MaxURLs object URLs.                                                    *)
(***************************************************************************)
C6_YieldsForever ==
    /\ []<>(pc = "yielded" \/ nextURL > MaxURLs)
    /\ []<>(pc = "fetch" \/ nextURL > MaxURLs)

(***************************************************************************)
(* C7.  A failed diff request leaves the generator at once: right after    *)
(* it the generator has thrown the request's error, nothing of it can run  *)
(* again (no retry, no further item), and the failure was not counted by   *)
(* the per-item failure counter.                                           *)
(***************************************************************************)
C7_DiffFailurePropagates ==
    error.kind = "diff" =>
        /\ pc = "thrown"
        /\ error = RemoteError
        /\ Terminated
        /\ consecutiveFailures = failStreak
        /\ consecutiveFailures < 3

\* A diff request of a later pass has failed, with one item failure pending.
C7_Witness ==
    /\ pc = "thrown"
    /\ error = RemoteError
    /\ previousURLs # << >>
    /\ consecutiveFailures = 1

(***************************************************************************)
(* C8.  A failure of decryptEnteFile on one record is handled like a       *)
(* non-authorization materialisation failure: it is counted by the         *)
(* failure counter and the run ends only when the counter has reached 3.   *)
(***************************************************************************)
C8_DecryptFailureIsPerItem ==
    error.kind = "decrypt" =>
        /\ consecutiveFailures >= 1
        /\ pc = "thrown" => consecutiveFailures = 3

(***************************************************************************)
(* C9.  For every record, decryptEnteFile returns a file whose title and   *)
(* creation time are the public overlay's editedName and editedTime when   *)
(* the overlay defines them (whatever their value), and the core           *)
(* metadata's otherwise; the private overlay changes neither.              *)
(***************************************************************************)
C9_PublicOverlaySupersedes ==
    item # Undefined =>
        LET core == decryptMetadata(item[1].encryptedFile.metadata)
            pub == item[1].encryptedFile.pubMagicMetadata
            editedTime == IF pub = Undefined THEN Undefined
                          ELSE decryptMetadata(pub[1].data).editedTime
            editedName == IF pub = Undefined THEN Undefined
                          ELSE decryptMetadata(pub[1].data).editedName
        IN  /\ item[1].file.metadata.creationTime =
                 IF editedTime # Undefined THEN editedTime[1]
                 ELSE core.creationTime
            /\ item[1].file.metadata.title =
                 IF editedName # Undefined THEN editedName[1]
                 ELSE core.title

(***************************************************************************)
(* C10.  isFileEligible(file) is true exactly when the file is an image or *)
(* a live photo, its declared size is at most 100 MiB (100 MiB itself is   *)
(* accepted) and its title's extension is not a non-web image extension or *)
(* is HEIC/HEIF; only a file the filter accepts is materialised.           *)
(***************************************************************************)
C10_EligibilityFilter ==
    item # Undefined =>
        /\ item[1].eligible <=> EligibleAsSpecified(item[1].file)
        /\ item[1].file.info.fileSize > 100 * 1024 * 1024 => ~item[1].eligible
        /\ item[1].file.metadata.fileType = FILE_TYPE_VIDEO => ~item[1].eligible
        /\ pc \in { "materialise", "resize", "encode", "wait", "yielded" } =>
                item[1].eligible

\* A HEIC live photo of exactly 100 MiB has passed the filter.
C10_Witness ==
    /\ pc = "materialise"
    /\ item # Undefined
    /\ item[1].eligible
    /\ item[1].file.info.fileSize = 100 * 1024 * 1024
    /\ item[1].file.metadata.fileType = FILE_TYPE_LIVE_PHOTO
    /\ item[1].file.metadata.title = << "a", "heic" >>

(***************************************************************************)
(* C11.  Within one pass the artifacts are yielded in the order of the     *)
(* pass's shuffled list, one at a time: the positions yielded so far are   *)
(* strictly increasing (no file twice, none out of order) and hold         *)
(* eligible files; the loop moves over the list one position at a time;    *)
(* every yield is of the item just materialised, and every successful      *)
(* materialisation (with or without a resize: the step that puts a new URL *)
(* in the window) is followed by the yield of that very item.              *)
(***************************************************************************)
C11_YieldsInPassOrder ==
    /\ [](/\ \A i, j \in 1..Len(passYields) :
                i < j => passYields[i] < passYields[j]
          /\ \A i \in 1..Len(passYields) :
                /\ passYields[i] \in 1..Len(encryptedFiles)
                /\ passYields[i] <= idx
                /\ isFileEligible(decryptEnteFile(encryptedFiles[passYields[i]]))
          /\ pc = "yielded" =>
                /\ passYields # << >>
                /\ passYields[Len(passYields)] = idx
                /\ yieldLog[Len(yieldLog)] = previousURLs[Len(previousURLs)]
          /\ pc \in { "decrypt", "materialise", "resize", "encode", "wait" } =>
                \A i \in 1..Len(passYields) : passYields[i] < idx)
    /\ [][ /\ (pc' = "yielded" /\ pc # "yielded") =>
                /\ pc \in { "materialise", "encode", "wait" }
                /\ idx' = idx
                /\ encryptedFiles' = encryptedFiles
                /\ passYields' = Append(passYields, idx)
           /\ (pc = "materialise" /\ pc' \notin { "thrown", "resize" }
                 /\ consecutiveFailures' = 0 /\ error' = NoError) =>
                pc' \in { "wait", "yielded" }
           /\ previousURLs' # previousURLs =>
                /\ pc \in { "materialise", "encode" }
                /\ pc' \in { "wait", "yielded" }
           /\ pc = "encode" => pc' \in { "wait", "yielded" }
           /\ pc = "wait" => (pc' = "yielded" /\ idx' = idx)
           /\ (pc \in { "decrypt", "materialise", "resize", "encode", "wait",
                        "yielded" }
                 /\ pc' \in { "decrypt", "materialise", "resize", "encode",
                               "wait", "yielded" }) =>
                /\ encryptedFiles' = encryptedFiles
                /\ idx' \in { idx, idx + 1 }
                /\ idx' = idx + 1 <=> pc' = "decrypt"
                /\ passYields' \in { passYields, Append(passYields, idx) }
         ]_vars

\* Both files of a pass of two have been yielded, in the order of the list.
C11_Witness ==
    /\ pc = "yielded"
    /\ passYields = << 1, 2 >>
    /\ Len(encryptedFiles) = 2

(***************************************************************************)
(* Vocabulary of C12 and C17.  A Renderable Artifact is a URL that the     *)
(* Materializer has returned to the Scheduler (createRenderableURL, line   *)
(* 296).  The URL that resize makes for its image (line 394) stays inside  *)
(* the Materializer and is no artifact; it is followed all the same.       *)
(***************************************************************************)
Artifacts ==
    { u \in 1..MaxURLs : artifact[u].by = "createRenderableURL" }

ImageURLs == { u \in 1..MaxURLs : artifact[u].by = "resize" }

(***************************************************************************)
(* C12.  On a Chromecast and on any other device: no URL is revoked more   *)
(* than once; an artifact is released only after it was yielded; neither   *)
(* the artifact on display (the one yielded last) nor one still in the     *)
(* window is released; and a step in which the Scheduler releases an       *)
(* artifact is the step that puts the next URL in the window, and releases *)
(* the artifact yielded just before the one on display, which is two       *)
(* positions before the artifact about to be yielded.  The URL of the      *)
(* image of resize never reaches the Scheduler: it is never in the window  *)
(* and never yielded, and it is revoked by resize itself, in a step that   *)
(* leaves the window alone.                                                *)
(***************************************************************************)
C12_ReleasesTwoBack ==
    /\ [](/\ \A u \in 1..MaxURLs : artifact[u].releases <= 1
          /\ \A u \in Artifacts :
                artifact[u].releases > 0 => artifact[u].yielded
          /\ yieldLog # << >> =>
                /\ yieldLog[Len(yieldLog)] \in Artifacts
                /\ artifact[yieldLog[Len(yieldLog)]].releases = 0
          /\ \A i \in 1..Len(previousURLs) :
                /\ previousURLs[i] \in Artifacts
                /\ artifact[previousURLs[i]].releases = 0
          /\ \A u \in ImageURLs :
                /\ ~artifact[u].yielded
                /\ u \notin Range(previousURLs))
    /\ [][ \A u \in 1..MaxURLs :
             artifact'[u].releases > artifact[u].releases =>
                /\ artifact'[u].releases = artifact[u].releases + 1
                /\ revoked' = Some(u)
                /\ IF u \in ImageURLs
                   THEN /\ pc = "resize"
                        /\ isChromecast
                        /\ previousURLs' = previousURLs
                        /\ yieldLog' = yieldLog
                   ELSE /\ pc \in { "materialise", "encode" }
                        /\ pc = (IF needsResize(isChromecast, item[1].file)
                                 THEN "encode" ELSE "materialise")
                        /\ u \in Artifacts
                        /\ artifact[u].yielded
                        /\ Len(yieldLog) >= 2
                        /\ u = yieldLog[Len(yieldLog) - 1]
                        /\ u # yieldLog[Len(yieldLog)]
                        /\ u # previousURLs'[Len(previousURLs')]
                        /\ u = Head(previousURLs)
                        /\ u \notin Range(previousURLs')
         ]_vars

\* On a Chromecast the third artifact of the run is on display and the
\* first, yielded two positions before it, has been released; the URL that
\* resize made for the image of the third has been revoked by resize and
\* was never yielded.
C12_Witness ==
    /\ pc = "yielded"
    /\ isChromecast
    /\ Len(yieldLog) = 3
    /\ artifact[yieldLog[1]].releases = 1
    /\ artifact[yieldLog[2]].releases = 0
    /\ artifact[yieldLog[3]].releases = 0
    /\ \E u \in ImageURLs :
            artifact[u].releases = 1 /\ ~artifact[u].yielded

(***************************************************************************)
(* C13.  A decrypted file that the Eligibility Filter rejects is skipped   *)
(* with no other effect: the step that skips it leaves the failure         *)
(* counter, the Playback Window (and the blobs), the last-yield timestamp  *)
(* and the have-eligible flag as they were and starts no download; and no  *)
(* download is ever in flight for a file the filter rejects.               *)
(***************************************************************************)
C13_RejectedFileIsSkipped ==
    /\ [](\A o \in inFlight :
            o.op = "download" =>
                EligibleAsSpecified(decryptEnteFile(encryptedFiles[o.arg])))
    /\ [][ (/\ pc = "decrypt"
            /\ pc' # "thrown"
            /\ ~EligibleAsSpecified(decryptEnteFile(encryptedFiles[idx]))) =>
                /\ consecutiveFailures' = consecutiveFailures
                /\ previousURLs' = previousURLs
                /\ artifact' = artifact
                /\ revoked' = revoked
                /\ lastYieldTime' = lastYieldTime
                /\ haveEligibleFiles' = haveEligibleFiles
                /\ pc' \in { "decrypt", "fetch", "done" }
                /\ \A o \in inFlight' : o.op # "download"
         ]_vars

\* A video has been skipped in a later pass, between a failure (the counter
\* is still 1) and the next item, with a slide on display.
C13_Witness ==
    /\ pc = "decrypt"
    /\ idx = 2
    /\ item # Undefined
    /\ ~item[1].eligible
    /\ item[1].file.metadata.fileType = FILE_TYPE_VIDEO
    /\ consecutiveFailures = 1
    /\ previousURLs # << >>

(***************************************************************************)
(* C14, as claimed.  The failure counter counts the consecutive failures   *)
(* of the current pass only: while a pass is worked on it equals the       *)
(* failures of that pass since its start or its last success, and the run  *)
(* is ended by the counter only with 3 such failures in one pass.          *)
(***************************************************************************)
C14_CounterIsPerPass ==
    /\ pc \in { "decrypt", "materialise", "wait", "yielded" } =>
            consecutiveFailures = passStreak
    /\ (pc = "thrown" /\ error.kind = "render"
            /\ ~IsAuthorizationFailure(error)) => passStreak = 3

(***************************************************************************)
(* C14, amended.  The failure counter counts the consecutive failures      *)
(* since the last successful materialisation, whatever pass they happened  *)
(* in: the head of a pass leaves it as it is, so failures at the end of    *)
(* one pass are added to those at the start of the next, and the run is    *)
(* ended by the counter exactly at the third failure in a row.             *)
(***************************************************************************)
C14_CounterSpansPasses ==
    /\ consecutiveFailures = failStreak
    /\ passStreak <= consecutiveFailures
    /\ (pc = "thrown" /\ error.kind = "render"
            /\ ~IsAuthorizationFailure(error)) => consecutiveFailures = 3
    /\ (pc # "thrown" /\ error.kind = "render") => consecutiveFailures < 3

\* The third failure in a row has ended the run; the first of the three
\* happened at the end of the pass before.
C14_Witness ==
    /\ pc = "thrown"
    /\ consecutiveFailures = 3
    /\ passStreak = 2
    /\ ~IsAuthorizationFailure(error)

(***************************************************************************)
(* C15.  Before each yield the generator waits out the rest of the slide   *)
(* duration: whenever the elapsed time e of line 148 is in 0..11999 the    *)
(* generator waits exactly 12000 - e ms before it yields, and the          *)
(* timestamps of two consecutive yields are at least 12000 ms apart        *)
(* (the clock of the model never goes back).                               *)
(***************************************************************************)
C15_PacesEverySlide ==
    /\ \A o \in inFlight :
            o.op = "wait" =>
                (elapsedTime # Undefined
                    /\ o.arg = slideDuration - elapsedTime[1])
    /\ (pc \in { "wait", "yielded" } /\ elapsedTime # Undefined
            /\ elapsedTime[1] >= 0 /\ elapsedTime[1] < slideDuration) =>
                waited = Some(slideDuration - elapsedTime[1])
    /\ yieldGap # Undefined => yieldGap[1] >= slideDuration

(***************************************************************************)
(* C16.  The delay of a pacing wait is never negative and never more than  *)
(* the slide duration of 12000 ms, and the wait before the first yield of  *)
(* the run is at most 2500 ms, however long the fetch, the decryption and  *)
(* the materialisation before it took.                                     *)
(***************************************************************************)
C16_WaitIsBounded ==
    /\ \A o \in inFlight :
            o.op = "wait" =>
                /\ o.arg >= 0
                /\ o.arg <= 12000
                /\ yieldLog = << >> => o.arg <= 2500
                /\ waited = Some(o.arg)
    /\ waited # Undefined =>
            /\ waited[1] >= 0
            /\ waited[1] <= 12000
            /\ (pc = "yielded" /\ Len(yieldLog) = 1) => waited[1] <= 2500

\* The first slide of the run is being waited for, 2500 ms, after a fetch of
\* two pages.
C16_Witness ==
    /\ pc = "wait"
    /\ yieldLog = << >>
    /\ Wait(2500) \in inFlight
    /\ Len(encryptedFiles) = 2

(***************************************************************************)
(* Vocabulary of C17: the URLs created and not revoked, and the last n     *)
(* elements of a sequence.                                                 *)
(***************************************************************************)
Unreleased ==
    { u \in 1..MaxURLs : artifact[u].created /\ artifact[u].releases = 0 }

LastN(s, n) == IF Len(s) > n THEN SubSeq(s, Len(s) - n + 1, Len(s)) ELSE s

(***************************************************************************)
(* C17, as claimed.  When the generator has terminated (returned or        *)
(* thrown), the only artifact created and not released is the one yielded  *)
(* last, and every artifact created was yielded.                           *)
(***************************************************************************)
C17_OnlyDisplayedUnreleased ==
    pc \in { "done", "thrown" } =>
        /\ Unreleased \cap Artifacts = Range(LastN(yieldLog, 1))
        /\ \A u \in Artifacts : artifact[u].yielded

(***************************************************************************)
(* C17, amended.  When the generator has terminated, on a Chromecast or on *)
(* any other device, the artifacts created and not released are exactly    *)
(* those of the Playback Window, which are the last two yielded (the last  *)
(* one when only one was yielded): every artifact yielded before them has  *)
(* been released, once, and every artifact created was yielded.  No other  *)
(* URL is left either: a URL that resize made for its image has been       *)
(* revoked by then, and was never yielded.                                  *)
(***************************************************************************)
C17_OnlyWindowUnreleased ==
    pc \in { "done", "thrown" } =>
        /\ Unreleased = Range(previousURLs)
        /\ Unreleased \subseteq Artifacts
        /\ previousURLs = LastN(yieldLog, 2)
        /\ \A u \in Artifacts :
                /\ artifact[u].yielded
                /\ u \notin Range(previousURLs) =>
                        artifact[u].releases = 1
        /\ \A u \in ImageURLs :
                /\ ~artifact[u].yielded
                /\ artifact[u].releases = 1

\* On a Chromecast the run has ended after three yields: the first artifact
\* has been released and the two of the window are left; the URLs that
\* resize made on the way are revoked.
C17_Witness ==
    /\ pc \in { "done", "thrown" }
    /\ isChromecast
    /\ Len(yieldLog) = 3
    /\ Cardinality(Unreleased) = 2
    /\ artifact[yieldLog[1]].releases = 1
    /\ ImageURLs # { }

(***************************************************************************)
(* C18.  The generator works on one item at a time: at most one operation  *)
(* (diff request, decryption, download and conversion, the loading and the *)
(* encoding of the image that is resized, pacing wait) is in flight, and   *)
(* it is the one of the stage the generator is suspended in;               *)
(* the decryption of the item at position i + 1 starts only when the item  *)
(* at position i was yielded and the consumer has pulled again, or was     *)
(* rejected, or has failed; and the materialisation of an item starts only *)
(* when its own decryption has settled.                                    *)
(***************************************************************************)
C18_OneItemAtATime ==
    /\ [](/\ Cardinality(inFlight) <= 1
          /\ pc = "fetch" => inFlight = { DiffRequest(sinceTime) }
          /\ pc = "decrypt" => inFlight = { DecryptCall(idx) }
          /\ pc = "materialise" => inFlight = { Download(idx) }
          /\ pc = "resize" =>
                \E u \in ImageURLs : inFlight = { ImageLoad(u) }
          /\ pc = "encode" => inFlight = { Encode(idx) }
          /\ pc = "wait" => \E ms \in 1..12000 : inFlight = { Wait(ms) }
          /\ pc \in { "start", "yielded", "done", "thrown" } =>
                inFlight = { })
    /\ [][ /\ \A i \in 2..Len(encryptedFiles') :
                (DecryptCall(i) \in inFlight' /\ DecryptCall(i) \notin inFlight)
                => /\ idx = i - 1
                   /\ encryptedFiles = encryptedFiles'
                   /\ \/ pc = "yielded" /\ passYields[Len(passYields)] = idx
                      \/ pc = "decrypt" /\ ~item'[1].eligible
                      \/ /\ pc \in { "materialise", "resize" }
                         /\ error'.kind = "render"
           /\ \A i \in 1..Len(encryptedFiles') :
                (Download(i) \in inFlight' /\ Download(i) \notin inFlight)
                => (pc = "decrypt" /\ idx = i /\ idx' = i
                      /\ DecryptCall(i) \notin inFlight')
         ]_vars

\* The first item of a pass was yielded, the consumer has pulled, and the
\* decryption of the second is the only operation in flight.
C18_Witness ==
    /\ pc = "decrypt"
    /\ idx = 2
    /\ passYields = << 1 >>
    /\ inFlight = { DecryptCall(2) }

(***************************************************************************)
(* C19.  The Diff Cursor (sinceTime) is 0 when a call of                   *)
(* getEncryptedCollectionFiles starts, in every pass; the request in       *)
(* flight carries the cursor reached after the page before; a page never   *)
(* moves the cursor back, and after a page the cursor is the greater of    *)
(* its value before and the greatest updationTime among all entries of the *)
(* page, deleted ones included and wherever on the page they stand.        *)
(***************************************************************************)
C19_CursorAdvances ==
    /\ [](/\ sinceTime >= 0
          /\ sinceTime >= pageMax
          /\ pc = "fetch" =>
                /\ inFlight = { DiffRequest(sinceTime) }
                /\ pages = 0 => sinceTime = 0)
    /\ [][ /\ pages' = pages + 1 =>
                /\ pc = "fetch"
                /\ sinceTime' >= sinceTime
                /\ sinceTime' = Max(sinceTime, pageMax')
                /\ pc' = "fetch" => inFlight' = { DiffRequest(sinceTime') }
           /\ (pc' = "fetch" /\ pc # "fetch") =>
                /\ sinceTime' = 0
                /\ pages' = 0
                /\ inFlight' = { DiffRequest(0) }
         ]_vars

\* In a later pass the first page of a call has been answered: it held two
\* entries of different updationTime, one of them a deleted one; the cursor
\* has moved to the greater of the two, and the next request carries it.
C19_Witness ==
    /\ pc = "fetch"
    /\ pages = 1
    /\ pageMin = 1
    /\ pageMax = 2
    /\ Len(fetched) = 1
    /\ sinceTime = 2
    /\ inFlight = { DiffRequest(2) }
    /\ previousURLs # << >>

(***************************************************************************)
(* Vocabulary of C20: the entries of the pages of a call in the order they *)
(* were received, and the last entry among them of a record.  This is the  *)
(* live set as the claim defines it; what the code keeps is LiveFiles.     *)
(***************************************************************************)
RECURSIVE Flatten(_)
Flatten(log) ==
    IF log = << >> THEN << >> ELSE Head(log) \o Flatten(Tail(log))

HasEntry(entries, r) == \E i \in 1..Len(entries) : entries[i].file = r

LatestEntry(entries, r) ==
    entries[CHOOSE i \in 1..Len(entries) :
                /\ entries[i].file = r
                /\ \A j \in (i + 1)..Len(entries) : entries[j].file # r]

LatestEntryIsLive(entries, r) ==
    HasEntry(entries, r) /\ ~LatestEntry(entries, r).isDeleted

(***************************************************************************)
(* C20.  When a call of getEncryptedCollectionFiles has returned, its      *)
(* result (files, which the pass then shuffles) is the live set of the     *)
(* collection: it is the entries not flagged deleted of the pages          *)
(* received, in the order received; it holds no record that the change log *)
(* says is deleted; and it holds a record exactly once if the last entry   *)
(* of that record in the pages is not a deleted one, and not at all        *)
(* otherwise.                                                              *)
(***************************************************************************)
C20_ResultIsLiveSet ==
    (pc \in { "decrypt", "done" } /\ pages > 0) =>
        LET entries == Flatten(diffLog)
            kept == SelectSeq(entries, LAMBDA e : ~e.isDeleted)
        IN  /\ Len(diffLog) = pages
            /\ fetched = [ i \in 1..Len(kept) |-> kept[i].file ]
            /\ \A r \in ServerRecords :
                    Count(encryptedFiles, r) = Count(fetched, r)
            /\ \A r \in ServerRecords :
                    Count(fetched, r) =
                        IF LatestEntryIsLive(entries, r) THEN 1 ELSE 0

(***************************************************************************)
(* C21.  The paging loop of getEncryptedCollectionFiles:                   *)
(*  - a call sends a request before anything else, and has received at     *)
(*    least one page when it returns;                                      *)
(*  - after a page is received a further request is sent exactly when the  *)
(*    response had hasMore set, so that while the call is running every    *)
(*    response so far had hasMore set;                                     *)
(*  - the response with hasMore unset ends the call in the same            *)
(*    resumption: no diff request stays in flight, and the pass goes on to *)
(*    the shuffle of what was fetched and to the iteration (to the return  *)
(*    of the generator when the pass iterates over nothing eligible at     *)
(*    all, the shuffled list being empty).                                 *)
(* A request that fails instead of being answered ends the call with an    *)
(* exception, whatever the responses before it said.                       *)
(***************************************************************************)
C21_PagesWhileHasMore ==
    /\ [](/\ pc = "fetch" =>
                /\ inFlight = { DiffRequest(sinceTime) }
                /\ hasMore = (IF pages = 0 THEN Undefined ELSE Some(TRUE))
          /\ (pc \notin { "fetch", "thrown" } /\ hasMore # Undefined) =>
                /\ hasMore = Some(FALSE)
                /\ pages >= 1
                /\ pc \in { "decrypt", "done" }
                /\ \A op \in inFlight : op.op # "diff")
    /\ [][ /\ (pc' = "fetch" /\ pc # "fetch") =>
                /\ pages' = 0
                /\ inFlight' = { DiffRequest(0) }
           /\ pages' = pages + 1 =>
                /\ pc = "fetch"
                /\ hasMore' \in { Some(TRUE), Some(FALSE) }
                /\ hasMore' = Some(TRUE) <=>
                      /\ pc' = "fetch"
                      /\ inFlight' = { DiffRequest(sinceTime') }
                /\ hasMore' = Some(FALSE) =>
                      /\ encryptedFiles' \in Shuffles(fetched')
                      /\ pc' = (IF encryptedFiles' = << >> THEN "done"
                                ELSE "decrypt")
                      /\ encryptedFiles' # << >> =>
                            /\ idx' = 1
                            /\ inFlight' = { DecryptCall(1) }
          ]_vars

\* A call has returned after two pages, the first with hasMore set and the
\* second without, and the pass iterates over the two files fetched.
C21_Witness ==
    /\ pc = "decrypt"
    /\ pages = 2
    /\ hasMore = Some(FALSE)
    /\ Len(encryptedFiles) = 2
    /\ idx = 1
    /\ previousURLs # << >>

(***************************************************************************)
(* Vocabulary of C22: what a call of createRenderableURL did, read off the *)
(* calls it made.                                                          *)
(***************************************************************************)
\* The positions of the calls of op.
CallsOf(made, op) == { i \in 1..Len(made.calls) : made.calls[i].op = op }

\* The file name ends in the extension HEIC (or HEIF).
HasHEICName(file) ==
    LET title == file.metadata.title
    IN  Len(title) > 1 /\ title[Len(title)] \in { "heic", "heif" }

(***************************************************************************)
(* C22.  Every call of createRenderableURL, for the file f it is given:    *)
(*  - requests one object, and it is the thumbnail exactly when the device *)
(*    is a Chromecast and the name of f has the extension HEIC; what it    *)
(*    decrypts, it decrypts with the header of the thumbnail then, and     *)
(*    with the header of the file otherwise (the two differ);              *)
(*  - once the object is downloaded and decrypted, splits it as a live     *)
(*    photo exactly when it is not the thumbnail and f is a live photo,    *)
(*    and detects the type only after the split; without a split the type  *)
(*    of the object itself is detected, under the name of f;               *)
(*  - when the detection yields no type, throws; and whenever it throws    *)
(*    before a resize has begun, no URL is created: the window, the blobs  *)
(*    and the next URL are as before, nothing is yielded, and the failure  *)
(*    is counted.  When it does not throw, a type has been detected, and   *)
(*    either the URL of the blob is created and enters the window or, on a *)
(*    device that resizes, the resize of the blob has begun.               *)
(***************************************************************************)
C22_MaterializerVariants ==
    [][ pc = "materialise" =>
          LET f == item[1].file
              made == render'[1]
              calls == made.calls
              thumbnail == isChromecast /\ HasHEICName(f)
              livePhoto == f.metadata.fileType = FILE_TYPE_LIVE_PHOTO
              decrypted ==
                  \E i \in CallsOf(made, "decryptFile") :
                      i < Len(calls) \/ made.thrown = Undefined
              sniffs == CallsOf(made, "detectMediaMIMEType")
          IN  /\ render' # Undefined
              /\ CallsOf(made, "get") = { 1 }
              /\ calls[1].arg = (IF thumbnail THEN "thumbnail" ELSE "file")
              /\ f.thumbnail.decryptionHeader # f.file.decryptionHeader
              /\ \A i \in CallsOf(made, "decryptFile") :
                    /\ i = 2
                    /\ calls[i].arg = (IF thumbnail
                                       THEN f.thumbnail.decryptionHeader
                                       ELSE f.file.decryptionHeader)
              /\ CallsOf(made, "decodeLivePhoto") =
                    (IF decrypted /\ ~thumbnail /\ livePhoto
                     THEN { 3 } ELSE { })
              /\ sniffs \subseteq { IF ~thumbnail /\ livePhoto THEN 4 ELSE 3 }
              /\ (decrypted /\ (thumbnail \/ ~livePhoto)) =>
                    /\ sniffs = { 3 }
                    /\ calls[3].arg = f.metadata.title
              /\ (sniffs # { } /\ made.mimeType = Undefined) =>
                    made.thrown = Some(PlainError)
              /\ made.thrown = Undefined =>
                    /\ sniffs # { }
                    /\ made.mimeType # Undefined
                    /\ artifact'[nextURL].created
                    /\ IF made.blob # Undefined
                       THEN /\ previousURLs' # << >>
                            /\ previousURLs'[Len(previousURLs')] = nextURL
                            /\ pc' \in { "wait", "yielded" }
                       ELSE /\ isChromecast
                            /\ previousURLs' = previousURLs
                            /\ pc' = "resize"
              /\ made.thrown # Undefined =>
                    /\ CallsOf(made, "createObjectURL") = { }
                    /\ nextURL' = nextURL
                    /\ previousURLs' = previousURLs
                    /\ artifact' = artifact
                    /\ yieldLog' = yieldLog
                    /\ pc' \notin { "wait", "yielded" }
                    /\ error' = made.thrown[1]
                    /\ consecutiveFailures' = consecutiveFailures + 1
      ]_vars

\* On a Chromecast a live photo named a.heic has been shown by its
\* thumbnail: the thumbnail was requested and decrypted with its header,
\* nothing was split, and the URL yielded is that of the resized thumbnail,
\* made after the URL that resize had used was revoked.
C22_Witness ==
    /\ pc = "yielded"
    /\ isChromecast
    /\ item[1].file.metadata.title = << "a", "heic" >>
    /\ item[1].file.metadata.fileType = FILE_TYPE_LIVE_PHOTO
    /\ render # Undefined
    /\ render[1].thrown = Undefined
    /\ render[1].calls =
          << Call("get", "thumbnail"),
             Call("decryptFile", ThumbnailHeader),
             Call("detectMediaMIMEType", << "a", "heic" >>),
             Call("resize", "image/jpeg"),
             Call("createObjectURL", "image/jpeg"),
             Call("revokeObjectURL", 1),
             Call("createObjectURL", "image/jpeg") >>
    /\ yieldLog = << 2 >>
    /\ artifact[1].releases = 1

====
